---- MODULE Spec2Model ----
(***************************************************************************)
(* The snapshot engine of the assignment-submission CLI:                   *)
(*   snap (src/controls/snap.ts), decompressSnapshot and recreateTree      *)
(*   (src/utils/recursive.ts), driven as the submission flow drives them.  *)
(*                                                                         *)
(* Strings the code inspects character by character (the snapshot name,    *)
(* file names in the snapshots directory) are sequences of one-character   *)
(* strings.  Entry names of the working directory are plain strings; a     *)
(* relative path is a sequence of entry names.  File bytes are tagged      *)
(* values, so that gzip/gunzip and JSON stringify/parse are conversions    *)
(* that can fail.  A SHA-1 digest is the tagged value it was computed      *)
(* from (collision freedom is assumed).                                    *)
(***************************************************************************)
EXTENDS Integers, Sequences, FiniteSets, TLC

\* ------------------------------------------------------------------------
\* Values standing for "no such file" and "undefined"
\* ------------------------------------------------------------------------
\* every file value is a pair <<tag, payload>>
Absent == <<"absent", "">>
Null == <<"null", "">>

\* ------------------------------------------------------------------------
\* Snapshot names and their validation (snap.ts 71-80)
\* ------------------------------------------------------------------------
LowerChars == {"a", "b"}
UpperChars == {"A"}
DigitChars == {"1"}
SlugChars == LowerChars \cup DigitChars \cup {"-"}

\* The names a caller supplies: slugs, and names the validation must reject.
SnapshotNames ==
  { <<"a">>, <<"a", "-", "1">>,
    <<"A">>, <<"a", "_", "b">>, <<"a", "-", "-", "b">> }

\* the character class [a-zA-Z0-9] of the regular expression
IsAlnum(c) == c \in LowerChars \cup UpperChars \cup DigitChars

RECURSIVE DropNonAlnum(_)
DropNonAlnum(s) ==
  IF s = <<>> THEN <<>>
  ELSE IF IsAlnum(Head(s)) THEN s ELSE DropNonAlnum(Tail(s))

\* .replace(/[^a-zA-Z0-9]+/g, "-"): every maximal run of other characters
\* becomes one hyphen
RECURSIVE replaceNonAlnumRuns(_)
replaceNonAlnumRuns(s) ==
  IF s = <<>> THEN <<>>
  ELSE IF IsAlnum(Head(s))
       THEN <<Head(s)>> \o replaceNonAlnumRuns(Tail(s))
       ELSE <<"-">> \o replaceNonAlnumRuns(DropNonAlnum(Tail(s)))

toLowerCase(s) ==
  [i \in 1..Len(s) |-> IF s[i] = "A" THEN "a" ELSE s[i]]

\* the replacement alone
sanitizeNoLowerCase(snapshotName) == replaceNonAlnumRuns(snapshotName)

sanitize(snapshotName) == toLowerCase(replaceNonAlnumRuns(snapshotName))

\* ------------------------------------------------------------------------
\* The working directory
\* ------------------------------------------------------------------------
IgnoreFileName == ".subsysignore"

\* Two names that are canonically equivalent Unicode strings and differ as
\* byte strings: one precomposed (NFC), one decomposed (NFD).  A Linux
\* directory can hold both.
NfcName == "e-acute.nfc"
NfdName == "e-acute.nfd"

\* relative paths of the user's files; "sub" is a directory
WorkPaths ==
  { <<"a.txt">>, <<"b.log">>, <<"secret.env">>, <<NfcName>>, <<NfdName>>,
    <<"sub", "c.txt">>, <<"sub", "d.log">> }

Contents == {"x", "y"}

RawBytes(c) == <<"raw", c>>
LinesBytes(lines) == <<"lines", lines>>

\* a.name.localeCompare(b.name) as a rank: a < b, a = b, a > b of the ranks.
\* localeCompare returns 0 for canonically equivalent strings.
NameRank(n) ==
  CASE n = IgnoreFileName -> 0
    [] n = "a.txt" -> 1
    [] n = "b.log" -> 2
    [] n = "c.txt" -> 3
    [] n = "d.log" -> 4
    [] n \in {NfcName, NfdName} -> 5
    [] n = "secret.env" -> 6
    [] n = "sub" -> 7
    [] OTHER -> 8

\* a position for every name, different for different names
ListPos(n) ==
  CASE n = ".subsys" -> 0
    [] n = NfdName -> 6
    [] n = NfcName -> 7
    [] n = "secret.env" -> 8
    [] n = "sub" -> 9
    [] OTHER -> NameRank(n) + 1

EntryNames ==
  { IgnoreFileName, "a.txt", "b.log", "c.txt", "d.log", NfcName, NfdName,
    "secret.env", "sub" }

\* lines an ignore file may hold
LiteralLine == "secret.env"
GlobLine == "*.log"
NestedGlobLine == "sub/*.log"
IgnoreFiles ==
  { Absent, LinesBytes({LiteralLine}), LinesBytes({LiteralLine, GlobLine}),
    LinesBytes({LiteralLine, GlobLine, NestedGlobLine}) }

\* ------------------------------------------------------------------------
\* File bytes, digests
\* ------------------------------------------------------------------------
\* crypto.createHash("sha1").update(x).digest("hex")
SHA1(bytes) == <<"sha1", bytes>>

SubsysName == ".subsys"

\* The part of the working directory the tree hasher can see: the user's
\* files, the ignore file, and the metadata directory as an entry.
\* files : path -> bytes or Absent;  subsys : does .subsys exist
CwdView(w, ig, hasSubsys) ==
  [ files |-> [p \in WorkPaths \cup {<<IgnoreFileName>>} |->
                 IF p = <<IgnoreFileName>> THEN ig ELSE w[p]],
    subsys |-> hasSubsys ]

PresentPaths(fs) == {p \in DOMAIN fs.files : fs.files[p] # Absent}

IsPrefix(d, p) == Len(d) <= Len(p) /\ SubSeq(p, 1, Len(d)) = d

\* stat(entryPath).isDirectory()
IsDirectory(fs, p) ==
  \/ p = <<SubsysName>> /\ fs.subsys
  \/ \E q \in PresentPaths(fs) : IsPrefix(p, q) /\ Len(q) > Len(p)

\* the names readdir(dir) returns, as a set
EntrySet(fs, dir) ==
  {q[Len(dir) + 1] : q \in {r \in PresentPaths(fs) : IsPrefix(dir, r) /\ Len(r) > Len(dir)}}
    \cup (IF dir = <<>> /\ fs.subsys THEN {SubsysName} ELSE {})

\* ------------------------------------------------------------------------
\* Orders in which the filesystem may list a directory.  An order is a
\* position for every entry name; readdir returns the entries by position.
\* ------------------------------------------------------------------------
AllEntryNames == EntryNames \cup {SubsysName}

SortedListing == [n \in AllEntryNames |-> ListPos(n)]
ReverseListing == [n \in AllEntryNames |-> 0 - ListPos(n)]
RotatedListing == [n \in AllEntryNames |-> (ListPos(n) + 5) % 10]
ListingOrders == {SortedListing, ReverseListing, RotatedListing}
\* the orders of the two listings one snap call makes of a directory
ListingPairs ==
  { <<SortedListing, ReverseListing>>, <<ReverseListing, RotatedListing>>,
    <<RotatedListing, SortedListing>> }

RECURSIVE SeqByKey(_, _)
\* the elements of the set S as a sequence, ascending by key
SeqByKey(S, key) ==
  IF S = {} THEN <<>>
  ELSE LET m == CHOOSE x \in S : \A y \in S : key[x] <= key[y]
       IN <<m>> \o SeqByKey(S \ {m}, key)

\* readdir(dir) under the listing order ord
readdir(fs, dir, ord) == SeqByKey(EntrySet(fs, dir), ord)

\* ------------------------------------------------------------------------
\* Ignore Resolver: getIgnoreList (snap.ts 207-239)
\* ------------------------------------------------------------------------
\* trimmedLine.includes("*")
IncludesStar(line) == line \in {GlobLine, NestedGlobLine}

\* a pattern or a literal line as path segments
Segments(line) ==
  CASE line = GlobLine -> <<"*.log">>
    [] line = NestedGlobLine -> <<"sub", "*.log">>
    [] OTHER -> <<line>>

SegmentMatches(seg, name) ==
  IF seg = "*.log" THEN name \in {"b.log", "d.log"} ELSE seg = name

\* every file or directory below cwd, as a relative path
AllPaths(fs) ==
  UNION { {SubSeq(q, 1, k) : k \in 1..Len(q)} : q \in PresentPaths(fs) }

\* glob.sync(pattern, {cwd}): the relative paths that match; the wildcard
\* matches within one path segment and never a leading dot
globSync(line, fs) ==
  {p \in AllPaths(fs) :
     /\ Len(p) = Len(Segments(line))
     /\ \A i \in 1..Len(p) : SegmentMatches(Segments(line)[i], p[i])}

\* the set of strings getIgnoreList returns; a string is kept as the path
\* segments it spells
getIgnoreList(fs) ==
  LET content == fs.files[<<IgnoreFileName>>]
  IN IF content = Absent THEN {}
     ELSE UNION { IF IncludesStar(line) THEN globSync(line, fs) ELSE {Segments(line)}
                  : line \in content[2] }

\* ignoreList.has(entry): the entry name equals a string of the set
IgnoreHas(ignoreList, entry) == <<entry>> \in ignoreList

\* ------------------------------------------------------------------------
\* Tree Hasher: calculateFileHash, calculateTreeHash (snap.ts 98-160)
\* ------------------------------------------------------------------------
calculateFileHash(fs, p) == SHA1(fs.files[p])

\* snap.ts 122-129
Excluded(entry, ignoreList) ==
  \/ entry = SubsysName
  \/ entry = "node_modules"
  \/ entry = "config.json"
  \/ IgnoreHas(ignoreList, entry)

\* children.map(obj => `${obj.type} ${obj.name}\0${obj.hash}`).join("")
SerializeChildren(children) ==
  <<"str", [i \in 1..Len(children) |->
              <<children[i].type, children[i].name, children[i].hash>>]>>

RECURSIVE SortByName(_)
\* children.sort((a, b) => a.name.localeCompare(b.name)); the sort is
\* stable, so names that compare equal stay in the order they were pushed
SortByName(s) ==
  IF s = <<>> THEN <<>>
  ELSE LET i == CHOOSE j \in 1..Len(s) :
                  /\ \A k \in 1..Len(s) : NameRank(s[j].name) <= NameRank(s[k].name)
                  /\ \A k \in 1..(j - 1) : NameRank(s[k].name) # NameRank(s[j].name)
       IN <<s[i]>> \o SortByName(SubSeq(s, 1, i - 1) \o SubSeq(s, i + 1, Len(s)))

RECURSIVE calculateTreeHash(_, _, _, _, _)
\* ord1 lists the directories of this call and of the call that yields a
\* subdirectory's hash (line 135); ord2 lists those of the second call on
\* the same subdirectory, which yields its children (line 141)
calculateTreeHash(fs, dir, ignoreList, ord1, ord2) ==
  LET entries == readdir(fs, dir, ord1)
      Keep(e) == ~Excluded(e, ignoreList)
      kept == SelectSeq(entries, Keep)
      childObject(e) ==
        LET p == Append(dir, e)
        IN IF IsDirectory(fs, p)
           THEN [ type |-> "tree", name |-> e,
                  hash |-> calculateTreeHash(fs, p, ignoreList, ord1, ord2).hash,
                  children |-> calculateTreeHash(fs, p, ignoreList, ord2, ord1).children ]
           ELSE [ type |-> "blob", name |-> e,
                  hash |-> calculateFileHash(fs, p),
                  children |-> <<>> ]
      pushed == [i \in 1..Len(kept) |-> childObject(kept[i])]
      sorted == SortByName(pushed)
  IN [ type |-> "tree", name |-> "", hash |-> SHA1(SerializeChildren(sorted)),
       children |-> sorted ]

\* ------------------------------------------------------------------------
\* Encodings: JSON.stringify / JSON.parse, zlib.gzipSync / gunzipSync
\* ------------------------------------------------------------------------
\* A JSON value is a pair <<shape, value>>: "artifact" for an object with
\* tree and files, "log" for an array of records, "other" for anything else.
JsonStringify(v) == <<"json", v>>
IsJsonText(bytes) == bytes[1] = "json"
JsonParse(bytes) == bytes[2]

gzipSync(bytes) == <<"gz", bytes>>
IsGzip(bytes) == bytes[1] = "gz"
gunzipSync(bytes) == bytes[2]

\* bytes that are neither gzip nor JSON
Garbage == RawBytes("garbage")
\* a file that exists and whose read fails
Unreadable == <<"unreadable", "">>
\* a JSON document that is neither an artifact nor a sequence of records
OtherJson == JsonStringify(<<"other", "">>)

\* ------------------------------------------------------------------------
\* File names in .subsys/snapshots, as character sequences
\* ------------------------------------------------------------------------
GzExt == <<".", "g", "z">>
LogTrackName == <<"l", "o", "g", "T", "r", "a", "c", "k", ".", "j", "s", "o", "n">>
\* a .gz file some other program left in the snapshots directory
ForeignName == <<"z", ".", "g", "z">>

\* snapshotFile = path.join(snapshotDir, sanitizedSnapshotName + ".gz")
ArtifactName(name) == name \o GzExt

\* snapshotFile.endsWith(".gz")
EndsWithGz(f) ==
  Len(f) >= Len(GzExt) /\ SubSeq(f, Len(f) - Len(GzExt) + 1, Len(f)) = GzExt

\* path.basename(snapshotFile, ".gz") in the submission flow
BasenameGz(f) ==
  IF EndsWithGz(f) /\ Len(f) > Len(GzExt) THEN SubSeq(f, 1, Len(f) - Len(GzExt)) ELSE f

\* position of the last "." of f that is not its first character, or 0
LastDot(f) ==
  LET dots == {i \in 2..Len(f) : f[i] = "."}
  IN IF dots = {} THEN 0 ELSE CHOOSE i \in dots : \A j \in dots : j <= i

\* path.basename(snapName, path.extname(snapName))
StripExt(f) == IF LastDot(f) = 0 THEN f ELSE SubSeq(f, 1, LastDot(f) - 1)

\* ------------------------------------------------------------------------
\* Snapshot Log: isDuplicateName, isDuplicateSHA (snap.ts 18-68)
\* ------------------------------------------------------------------------
\* the log file parses to an array of records
ParsesAsLog(logBytes) ==
  IF IsJsonText(logBytes) THEN JsonParse(logBytes)[1] = "log" ELSE FALSE

LogEntries(logBytes) == JsonParse(logBytes)[2]

\* a check that never finds a duplicate
isDuplicateNameNever(logBytes, name) == FALSE

\* a check that takes an unreadable log for an empty one
isDuplicateNameFailOpen(logBytes, name) ==
  IF logBytes = Absent THEN FALSE
  ELSE IF ~ParsesAsLog(logBytes) THEN FALSE
  ELSE \E i \in 1..Len(LogEntries(logBytes)) : LogEntries(logBytes)[i].treeName = name

isDuplicateName(logBytes, name) ==
  IF logBytes = Absent THEN FALSE
  ELSE IF ~ParsesAsLog(logBytes) THEN TRUE
  ELSE \E i \in 1..Len(LogEntries(logBytes)) : LogEntries(logBytes)[i].treeName = name

\* a check that never finds a duplicate
isDuplicateSHANever(logBytes, currentHash) == FALSE

isDuplicateSHA(logBytes, currentHash) ==
  IF logBytes = Absent THEN FALSE
  ELSE IF ~ParsesAsLog(logBytes) THEN TRUE
  ELSE \E i \in 1..Len(LogEntries(logBytes)) : LogEntries(logBytes)[i].SHA = currentHash

\* ------------------------------------------------------------------------
\* Snapshot Loader: decompressSnapshot (recursive.ts 21-40)
\* ------------------------------------------------------------------------
DirEntry == <<"dir", "">>

\* entry: what is at the path (Absent, DirEntry or a file's bytes).
\* value: the value returned (Null for null); diag: console.error was called
decompressSnapshot(entry, snapshotFile) ==
  IF entry = Absent
  THEN [value |-> Null, diag |-> TRUE]                \* statSync throws
  ELSE IF entry = DirEntry \/ ~EndsWithGz(snapshotFile)
  THEN [value |-> Null, diag |-> FALSE]
  ELSE IF ~IsGzip(entry)
  THEN [value |-> Null, diag |-> TRUE]                \* gunzipSync throws
  ELSE IF ~IsJsonText(gunzipSync(entry))
  THEN [value |-> Null, diag |-> TRUE]                \* JSON.parse throws
  ELSE [value |-> JsonParse(gunzipSync(entry)), diag |-> FALSE]

\* ------------------------------------------------------------------------
\* Tree Reconstructor: recreateTree, recreateTreeHelper (recursive.ts 42-140)
\* ------------------------------------------------------------------------
EmptyFn == [x \in {} |-> Absent]

RECURSIVE recreateTreeHelperFlat(_, _, _, _)
\* a reconstruction that does not enter subdirectories
recreateTreeHelperFlat(children, parentPath, objs, acc) ==
  IF children = <<>> THEN acc
  ELSE LET c == Head(children)
           childPath == Append(parentPath, c.name)
           done ==
             IF c.type = "blob"
             THEN IF c.hash \in DOMAIN objs
                  THEN [acc EXCEPT !.files = (childPath :> objs[c.hash]) @@ @]
                  ELSE [acc EXCEPT !.diags = Append(@, childPath)]
             ELSE acc
       IN recreateTreeHelperFlat(Tail(children), parentPath, objs, done)

RECURSIVE recreateTreeHelper(_, _, _, _)
\* children: tree.children; acc.files: the files below the destination,
\* acc.diags: the paths reported as "corresponding object file not found"
recreateTreeHelper(children, parentPath, objs, acc) ==
  IF children = <<>> THEN acc
  ELSE LET c == Head(children)
           childPath == Append(parentPath, c.name)
           done ==
             IF c.type = "tree"
             THEN recreateTreeHelper(c.children, childPath, objs, acc)
             ELSE IF c.type = "blob"
             THEN IF c.hash \in DOMAIN objs
                  THEN [acc EXCEPT !.files = (childPath :> objs[c.hash]) @@ @]
                  ELSE [acc EXCEPT !.diags = Append(@, childPath)]
             ELSE acc
       IN recreateTreeHelper(Tail(children), parentPath, objs, done)

RECURSIVE restoreFromFiles(_, _, _)
\* the loop over snapshot.files (recursive.ts 75-102); acc.threw: statSync
\* threw because nothing exists at the file's path below the destination
restoreFromFiles(treeObjects, objs, acc) ==
  IF treeObjects = <<>> \/ acc.threw THEN acc
  ELSE LET fileObject == Head(treeObjects)
           done ==
             IF fileObject.type # "blob" THEN acc
             ELSE IF fileObject.name \notin DOMAIN acc.files
             THEN [acc EXCEPT !.threw = TRUE]
             ELSE IF fileObject.hash \in DOMAIN objs
             THEN [acc EXCEPT !.files = (fileObject.name :> objs[fileObject.hash]) @@ @]
             ELSE [acc EXCEPT !.diags = Append(@, fileObject.name)]
       IN restoreFromFiles(Tail(treeObjects), objs, done)

\* recreateTree(snapshot, baseDir, snapName) with a snapshot name.
\* before: the files already below the destination directory
recreateTree(snapshot, before, objs) ==
  IF snapshot[1] # "artifact"
  THEN [files |-> before, diags |-> <<>>, threw |-> TRUE]   \* tree is undefined
  ELSE LET first == restoreFromFiles(snapshot[2].files, objs,
                      [files |-> before, diags |-> <<>>, threw |-> FALSE])
       IN IF first.threw THEN first
          ELSE recreateTreeHelper(snapshot[2].tree.children, <<>>, objs, first)

\* ------------------------------------------------------------------------
\* State
\* ------------------------------------------------------------------------
VARIABLES
  work,          \* the user's files: path -> bytes or Absent
  ignoreFile,    \* bytes of .subsysignore, or Absent
  dirs,          \* which of .subsys/snapshots and .subsys/objects exist
  snapshotsDir,  \* the .gz files of .subsys/snapshots: file name -> bytes
  logFile,       \* bytes of .subsys/snapshots/logTrack.json, or Absent
  objects,       \* the Object Store: digest -> bytes
  restored,      \* restored trees: directory name -> (path -> bytes)
  pc,            \* where the running snap call stands, "idle" if none runs
  callName,      \* the name the current or last snap call was given
  treeObject,    \* the tree the running snap call computed
  outcome,       \* how the last snap call ended
  io,            \* what the current or last snap call did to the file system
  wrote,         \* the user's files that call stored in the Object Store
  loadPath,      \* the file name last given to decompressSnapshot
  loaded,        \* what decompressSnapshot returned for it
  loadDiag,      \* whether decompressSnapshot reported an error for it
  restoreOut,    \* result of the last recreateTree: threw, diags
  chain,         \* history: snap, load and restore of one snapshot in a row
  appended,      \* history: the names for which snap appended a log entry
  logBefore,     \* history: the log file as the running snap call found it
  tampered,      \* history: something other than snap changed the files of .subsys
  events         \* number of edits and faults of the environment so far

vars ==
  << work, ignoreFile, dirs, snapshotsDir, logFile, objects, restored, pc,
     callName, treeObject, outcome, io, wrote, loadPath, loaded, loadDiag,
     restoreOut, chain, appended, logBefore, tampered, events >>

storeVars == << snapshotsDir, logFile, objects >>

\* how many events of the environment one run explores: an edit of the
\* working directory, a corrupted log, a lost object, a foreign file, a
\* failing write
MaxEvents == 1

NoName == <<>>
NoTree == [type |-> "tree", name |-> "", hash |-> Null, children |-> <<>>]
NoRestore == [threw |-> FALSE, diags |-> <<>>, ran |-> FALSE]

InitialWork ==
  [p \in WorkPaths |->
     IF p = <<"a.txt">> THEN RawBytes("x") ELSE RawBytes("y")]

Init ==
  /\ work = InitialWork
  /\ ignoreFile = LinesBytes({LiteralLine, GlobLine, NestedGlobLine})
  /\ dirs = {}
  /\ snapshotsDir = EmptyFn
  /\ logFile = Absent
  /\ objects = EmptyFn
  /\ restored = EmptyFn
  /\ pc = "idle"
  /\ callName = NoName
  /\ treeObject = NoTree
  /\ outcome = "none"
  /\ io = <<>>
  /\ wrote = {}
  /\ loadPath = NoName
  /\ loaded = Null
  /\ loadDiag = FALSE
  /\ restoreOut = NoRestore
  /\ chain = "none"
  /\ appended = {}
  /\ logBefore = Null
  /\ tampered = FALSE
  /\ events = 0

ForgetSnap ==
  /\ callName' = NoName
  /\ treeObject' = NoTree
  /\ outcome' = "none"
  /\ io' = <<>>
  /\ wrote' = {}

ForgetLoad ==
  /\ loadPath' = NoName
  /\ loaded' = Null
  /\ loadDiag' = FALSE
  /\ restoreOut' = NoRestore

\* ------------------------------------------------------------------------
\* snap (snap.ts 70-316)
\* ------------------------------------------------------------------------
\* lines 71-172: validation, directories, ignore list, tree, duplicate checks.
\* ord1, ord2: the orders in which the directories happen to be listed
SnapCheck(snapshotName, ord1, ord2) ==
  /\ pc = "idle"
  /\ UNCHANGED tampered
  /\ callName' = snapshotName
  /\ wrote' = {}
  /\ ForgetLoad
  /\ chain' = "none"
  /\ UNCHANGED << work, ignoreFile, snapshotsDir, logFile, objects, restored,
                  appended, events >>
  /\ IF sanitize(snapshotName) # snapshotName
     THEN /\ outcome' = "invalid"
          /\ io' = <<>>
          /\ UNCHANGED << dirs, pc, treeObject, logBefore >>
     ELSE LET fs == CwdView(work, ignoreFile, TRUE)
              ignoreList == getIgnoreList(fs)
              tree == calculateTreeHash(fs, <<>>, ignoreList, ord1, ord2)
              made == IF dirs = {"snapshots", "objects"} THEN <<>> ELSE <<"mkdir">>
          IN /\ dirs' = {"snapshots", "objects"}
             /\ io' = made \o <<"read">>
             /\ IF isDuplicateName(logFile, sanitize(snapshotName))
                THEN /\ outcome' = "dup_name"
                     /\ UNCHANGED << pc, treeObject, logBefore >>
                ELSE IF isDuplicateSHA(logFile, tree.hash)
                THEN /\ outcome' = "dup_sha"
                     /\ UNCHANGED << pc, treeObject, logBefore >>
                ELSE /\ outcome' = "running"
                     /\ treeObject' = tree
                     /\ logBefore' = logFile
                     /\ pc' = "write_artifact"

\* lines 174-187: files is still empty when the artifact is serialized
snapshotData == [tree |-> treeObject, files |-> <<>>]

SerializeSnapshot(data) == gzipSync(JsonStringify(<<"artifact", data>>))

\* lines 184-187 and the catch of lines 202-205
WriteArtifact(ok) ==
  /\ pc = "write_artifact"
  /\ UNCHANGED tampered
  /\ IF ok
     THEN /\ snapshotsDir' =
               (ArtifactName(callName) :> SerializeSnapshot(snapshotData)) @@ snapshotsDir
          /\ io' = Append(io, "writeArtifact")
          /\ pc' = "append_log"
          /\ UNCHANGED << outcome, treeObject, logBefore, events >>
     ELSE /\ events < MaxEvents
          /\ events' = events + 1
          /\ outcome' = "error"
          /\ pc' = "idle"
          /\ treeObject' = NoTree
          /\ logBefore' = Null
          /\ UNCHANGED << snapshotsDir, io >>
  /\ UNCHANGED << work, ignoreFile, dirs, logFile, objects, restored, callName,
                  wrote, loadPath, loaded, loadDiag, restoreOut, chain, appended >>

\* lines 189-200 and the catch of lines 202-205
AppendLog(ok) ==
  /\ pc = "append_log"
  /\ UNCHANGED tampered
  /\ IF ok /\ (logFile = Absent \/ ParsesAsLog(logFile))
     THEN LET logTrack == IF logFile = Absent THEN <<>> ELSE LogEntries(logFile)
              pushed == Append(logTrack, [treeName |-> callName, SHA |-> treeObject.hash])
          IN /\ logFile' = JsonStringify(<<"log", pushed>>)
             /\ io' = Append(io, "writeLog")
             /\ appended' = appended \cup {callName}
             /\ pc' = "process_entry"
             /\ UNCHANGED << outcome, treeObject, logBefore, events >>
     ELSE /\ ~ok => (events < MaxEvents /\ events' = events + 1)
          /\ ok => UNCHANGED events
          /\ outcome' = "error"
          /\ pc' = "idle"
          /\ treeObject' = NoTree
          /\ logBefore' = Null
          /\ UNCHANGED << logFile, io, appended >>
  /\ UNCHANGED << work, ignoreFile, dirs, snapshotsDir, objects, restored, callName,
                  wrote, loadPath, loaded, loadDiag, restoreOut, chain >>

RECURSIVE SetToSeq(_)
SetToSeq(S) ==
  IF S = {} THEN <<>>
  ELSE LET x == CHOOSE y \in S : TRUE IN <<x>> \o SetToSeq(S \ {x})

Range(f) == {f[x] : x \in DOMAIN f}

\* the bytes of every regular file below .subsys
SubsysFiles ==
  Range(snapshotsDir)
    \cup (IF logFile = Absent THEN {} ELSE {logFile})
    \cup Range(objects)
    \cup UNION {Range(restored[n]) : n \in DOMAIN restored}

RECURSIVE WalkFiles(_, _, _)
\* the files processEntry visits below dir, in the order it visits them,
\* each with its path; a file below .subsys is listed under <<".subsys">>
WalkFiles(fs, dir, ord) ==
  LET entries == readdir(fs, dir, ord)
      Visit(e) ==
        IF dir = <<>> /\ e = SubsysName
        THEN LET inside == SetToSeq(SubsysFiles)
             IN [i \in 1..Len(inside) |-> [path |-> <<SubsysName>>, bytes |-> inside[i]]]
        ELSE IF IsDirectory(fs, Append(dir, e)) THEN WalkFiles(fs, Append(dir, e), ord)
        ELSE << [path |-> Append(dir, e), bytes |-> fs.files[Append(dir, e)]] >>
      Cat[i \in 0..Len(entries)] ==
        IF i = 0 THEN <<>> ELSE Cat[i - 1] \o Visit(entries[i])
  IN Cat[Len(entries)]

RECURSIVE StoreObjectsKeyedByName(_, _)
\* a store whose key is the digest of the file's name
StoreObjectsKeyedByName(objs, walk) ==
  IF walk = <<>> THEN objs
  ELSE LET f == Head(walk)
       IN StoreObjectsKeyedByName(
            (SHA1(RawBytes(f.path[Len(f.path)])) :> f.bytes) @@ objs, Tail(walk))

RECURSIVE StoreObjects(_, _)
\* lines 254-267 for each file of walk: the object file is written whether
\* or not it exists
StoreObjects(objs, walk) ==
  IF walk = <<>> THEN objs
  ELSE StoreObjects((SHA1(Head(walk).bytes) :> Head(walk).bytes) @@ objs, Tail(walk))

\* lines 304-316: processEntry on the whole working directory.  It stores
\* the first k files it visits; with k short of all of them it throws there.
ProcessEntry(ord) ==
  /\ pc = "process_entry"
  /\ UNCHANGED tampered
  /\ LET walk == WalkFiles(CwdView(work, ignoreFile, TRUE), <<>>, ord)
     IN \E k \in 0..Len(walk) :
        /\ objects' = StoreObjects(objects, SubSeq(walk, 1, k))
        /\ wrote' = {walk[i].path : i \in 1..k} \ {<<SubsysName>>}
        /\ io' = IF k > 0 THEN Append(io, "writeObject") ELSE io
        /\ IF k = Len(walk)
           THEN /\ outcome' = "created"
                /\ chain' = "snapped"
                /\ UNCHANGED events
           ELSE /\ events < MaxEvents
                /\ events' = events + 1
                /\ outcome' = "threw"
                /\ UNCHANGED chain
  /\ pc' = "idle"
  /\ treeObject' = NoTree
  /\ logBefore' = Null
  /\ UNCHANGED << work, ignoreFile, dirs, snapshotsDir, logFile, restored, callName,
                  loadPath, loaded, loadDiag, restoreOut, appended >>

\* ------------------------------------------------------------------------
\* The submission flow's use of the loader and the reconstructor
\* ------------------------------------------------------------------------
\* what is at a path of the snapshots directory
EntryAt(f) ==
  IF f \in DOMAIN snapshotsDir THEN snapshotsDir[f]
  ELSE IF f = LogTrackName THEN logFile
  ELSE IF f \in DOMAIN restored THEN DirEntry
  ELSE Absent

ProbePaths ==
  DOMAIN snapshotsDir \cup DOMAIN restored \cup {LogTrackName, ForeignName}

Load(f) ==
  /\ pc = "idle"
  /\ UNCHANGED << logBefore, tampered >>
  /\ "snapshots" \in dirs
  /\ LET r == decompressSnapshot(EntryAt(f), f)
     IN /\ loaded' = r.value
        /\ loadDiag' = r.diag
  /\ loadPath' = f
  /\ restoreOut' = NoRestore
  /\ IF outcome = "created" /\ f = ArtifactName(callName)
     THEN /\ chain' = "loaded"
          /\ UNCHANGED << callName, treeObject, outcome, io, wrote >>
     ELSE /\ chain' = "none"
          /\ ForgetSnap
  /\ UNCHANGED << work, ignoreFile, dirs, snapshotsDir, logFile, objects, restored,
                  pc, appended, events >>

\* if (snapshotData) recreateTree(snapshotData, baseDir, snapshotName)
Restore ==
  /\ pc = "idle"
  /\ UNCHANGED << logBefore, tampered >>
  /\ loaded # Null
  /\ ~restoreOut.ran
  /\ LET dirName == StripExt(BasenameGz(loadPath))
         before == IF dirName \in DOMAIN restored THEN restored[dirName] ELSE EmptyFn
         r == recreateTree(loaded, before, objects)
     IN /\ restoreOut' = [threw |-> r.threw, diags |-> r.diags, ran |-> TRUE]
        /\ restored' = IF loaded[1] = "artifact"
                       THEN (dirName :> r.files) @@ restored
                       ELSE restored
  /\ chain' = IF chain = "loaded" THEN "restored" ELSE "none"
  /\ UNCHANGED << work, ignoreFile, dirs, snapshotsDir, logFile, objects, pc,
                  callName, treeObject, outcome, io, wrote, loadPath, loaded, loadDiag,
                  appended, events >>

\* ------------------------------------------------------------------------
\* The environment, between commands
\* ------------------------------------------------------------------------
EditFile(p, b) ==
  /\ pc = "idle"
  /\ UNCHANGED << logBefore, tampered >>
  /\ events < MaxEvents
  /\ work[p] # b
  /\ work' = [work EXCEPT ![p] = b]
  /\ events' = events + 1
  /\ ForgetSnap /\ ForgetLoad
  /\ chain' = "none"
  /\ UNCHANGED << ignoreFile, dirs, snapshotsDir, logFile, objects, restored, pc,
                  appended >>

EditIgnore(b) ==
  /\ pc = "idle"
  /\ UNCHANGED << logBefore, tampered >>
  /\ events < MaxEvents
  /\ ignoreFile # b
  /\ ignoreFile' = b
  /\ events' = events + 1
  /\ ForgetSnap /\ ForgetLoad
  /\ chain' = "none"
  /\ UNCHANGED << work, dirs, snapshotsDir, logFile, objects, restored, pc,
                  appended >>

\* the log file becomes unreadable as a sequence of records
CorruptLog(b) ==
  /\ pc = "idle"
  /\ UNCHANGED logBefore
  /\ tampered' = TRUE
  /\ events < MaxEvents
  /\ logFile # Absent
  /\ logFile' = b
  /\ events' = events + 1
  /\ ForgetSnap /\ ForgetLoad
  /\ chain' = "none"
  /\ UNCHANGED << work, ignoreFile, dirs, snapshotsDir, objects, restored, pc,
                  appended >>

\* an object file is lost
DeleteObject(d) ==
  /\ pc = "idle"
  /\ UNCHANGED logBefore
  /\ tampered' = TRUE
  /\ events < MaxEvents
  /\ objects' = [x \in (DOMAIN objects) \ {d} |-> objects[x]]
  /\ events' = events + 1
  /\ ForgetSnap /\ ForgetLoad
  /\ chain' = "none"
  /\ UNCHANGED << work, ignoreFile, dirs, snapshotsDir, logFile, restored, pc,
                  appended >>

\* A document of the TreeSnapshot shape (recursive.ts 5-19) that snap did not
\* write: its files list names every blob of its tree, with the type.  The
\* object of a.txt is the one snap stores for the initial a.txt; no object
\* exists for lost.txt.
ForeignTree ==
  [ type |-> "tree", name |-> "", hash |-> SHA1(RawBytes("foreign")),
    children |->
      << [type |-> "blob", name |-> "a.txt", hash |-> SHA1(RawBytes("x")),
          children |-> <<>>],
         [type |-> "blob", name |-> "lost.txt", hash |-> SHA1(RawBytes("w")),
          children |-> <<>>] >> ]

ForeignArtifact ==
  [ tree |-> ForeignTree,
    files |->
      << [name |-> <<"a.txt">>, hash |-> SHA1(RawBytes("x")), type |-> "blob"],
         [name |-> <<"lost.txt">>, hash |-> SHA1(RawBytes("w")), type |-> "blob"] >> ]

ForeignBytes ==
  { Garbage, gzipSync(Garbage), gzipSync(OtherJson),
    gzipSync(JsonStringify(<<"artifact", ForeignArtifact>>)) }

\* some other program leaves a .gz file in the snapshots directory
PlaceForeign(b) ==
  /\ pc = "idle"
  /\ UNCHANGED logBefore
  /\ tampered' = TRUE
  /\ events < MaxEvents
  /\ "snapshots" \in dirs
  /\ ForeignName \notin DOMAIN snapshotsDir
  /\ snapshotsDir' = (ForeignName :> b) @@ snapshotsDir
  /\ events' = events + 1
  /\ ForgetSnap /\ ForgetLoad
  /\ chain' = "none"
  /\ UNCHANGED << work, ignoreFile, dirs, logFile, objects, restored, pc,
                  appended >>

FileValues == {Absent} \cup {RawBytes(c) : c \in Contents}

Next ==
  \/ \E n \in SnapshotNames, o \in ListingPairs : SnapCheck(n, o[1], o[2])
  \/ \E ok \in BOOLEAN : WriteArtifact(ok)
  \/ \E ok \in BOOLEAN : AppendLog(ok)
  \/ \E o \in ListingOrders : ProcessEntry(o)
  \/ \E f \in ProbePaths : Load(f)
  \/ Restore
  \/ \E p \in WorkPaths, b \in FileValues : EditFile(p, b)
  \/ \E b \in IgnoreFiles : EditIgnore(b)
  \/ \E b \in {Garbage, OtherJson, Unreadable} : CorruptLog(b)
  \/ \E d \in DOMAIN objects : DeleteObject(d)
  \/ \E b \in ForeignBytes : PlaceForeign(b)

Spec == Init /\ [][Next]_vars

\* ------------------------------------------------------------------------
\* Vocabulary of the properties
\* ------------------------------------------------------------------------
\* the working directory as the running or last command saw it
Cwd == CwdView(work, ignoreFile, TRUE)

\* the records of a readable log
LoggedNames ==
  IF logFile # Absent /\ ParsesAsLog(logFile)
  THEN {LogEntries(logFile)[i].treeName : i \in 1..Len(LogEntries(logFile))}
  ELSE {}

LoggedDigests ==
  IF logFile # Absent /\ ParsesAsLog(logFile)
  THEN {LogEntries(logFile)[i].SHA : i \in 1..Len(LogEntries(logFile))}
  ELSE {}

LogUnreadable == logFile # Absent /\ ~ParsesAsLog(logFile)

\* the root digest snap computes for the working directory as it is
RootDigest(o) == calculateTreeHash(Cwd, <<>>, getIgnoreList(Cwd), o[1], o[2]).hash

\* the step is the first step of a call snap(cwd, n)
SnapCalled(n) == \E o \in ListingPairs : SnapCheck(n, o[1], o[2])

IsSlug(n) == \A i \in 1..Len(n) : n[i] \in SlugChars

\* nothing was written by the step
NoWrite ==
  /\ UNCHANGED << snapshotsDir, logFile, objects >>
  /\ \A i \in 1..Len(io') : io'[i] \in {"mkdir", "read"}

RECURSIVE TreeBlobs(_, _)
\* the blobs below a sequence of tree nodes, each with its relative path
TreeBlobs(children, prefix) ==
  IF children = <<>> THEN {}
  ELSE LET c == Head(children)
           here == IF c.type = "blob"
                   THEN {[path |-> Append(prefix, c.name), hash |-> c.hash]}
                   ELSE TreeBlobs(c.children, Append(prefix, c.name))
       IN here \cup TreeBlobs(Tail(children), prefix)

\* the {tree, files} document of an artifact file written by snap
ArtifactOf(f) == JsonParse(gunzipSync(snapshotsDir[f]))[2]

IsArtifactFile(f) ==
  /\ f \in DOMAIN snapshotsDir
  /\ IsGzip(snapshotsDir[f])
  /\ IsJsonText(gunzipSync(snapshotsDir[f]))
  /\ JsonParse(gunzipSync(snapshotsDir[f]))[1] = "artifact"

\* ------------------------------------------------------------------------
\* C1  Duplicate-name refusal: once snap has appended a log entry for a
\* name, every later snap call with that name, whatever the content of the
\* directory, ends with the name-collision outcome and writes no artifact,
\* no log entry and no object.
\* ------------------------------------------------------------------------
C1_DuplicateNameRefused ==
  [][\A n \in SnapshotNames :
       (SnapCalled(n) /\ n \in appended) =>
         (outcome' = "dup_name" /\ pc' = "idle" /\ NoWrite)]_vars

\* a second snap under a logged name, after the content changed, was refused
C1_Witness ==
  /\ outcome = "dup_name"
  /\ callName \in appended
  /\ callName \in LoggedNames
  /\ events = 1
  /\ \A o \in ListingPairs : RootDigest(o) \notin LoggedDigests

\* ------------------------------------------------------------------------
\* C2  Duplicate-content refusal: with a readable log that holds the root
\* digest of the current tree under another name, a snap call with a slug
\* that is not logged ends with the content-collision outcome, which is not
\* the name-collision outcome, and nothing is written: no object, no
\* artifact, no log entry.
\* ------------------------------------------------------------------------
C2_DuplicateContentRefused ==
  [][\A n \in SnapshotNames, o \in ListingPairs :
       ( /\ SnapCheck(n, o[1], o[2])
         /\ IsSlug(n) /\ sanitize(n) = n
         /\ n \notin LoggedNames
         /\ RootDigest(o) \in LoggedDigests ) =>
         (outcome' = "dup_sha" /\ outcome' # "dup_name" /\ pc' = "idle" /\ NoWrite)]_vars

C2_Witness ==
  /\ outcome = "dup_sha"
  /\ callName \notin LoggedNames
  /\ LoggedNames # {}
  /\ \E o \in ListingPairs : RootDigest(o) \in LoggedDigests
  /\ io = <<"read">>

\* ------------------------------------------------------------------------
\* C3  Round trip: after a snap that succeeded, the load of its artifact and
\* the restoration of what was loaded, with the directory unchanged
\* throughout, every file of the directory that the tree walk does not
\* exclude is below the restore destination at its relative path with the
\* bytes it has in the directory.
\* ------------------------------------------------------------------------
\* some name on the path is one the tree walk skips
PathExcluded(p) == \E i \in 1..Len(p) : Excluded(p[i], getIgnoreList(Cwd))

C3_RoundTrip ==
  chain = "restored" =>
    /\ ~restoreOut.threw
    /\ callName \in DOMAIN restored
    /\ \A p \in PresentPaths(Cwd) :
         ~PathExcluded(p) =>
           (p \in DOMAIN restored[callName] /\ restored[callName][p] = Cwd.files[p])

\* a round trip restored a file of a subdirectory and left an ignored file out
C3_Witness ==
  /\ chain = "restored"
  /\ <<"sub", "c.txt">> \in DOMAIN restored[callName]
  /\ <<"a.txt">> \in DOMAIN restored[callName]
  /\ \E p \in PresentPaths(Cwd) : PathExcluded(p)

\* ------------------------------------------------------------------------
\* C4  Ignore semantics: after a snap that succeeded, no file whose name is
\* a literal line of the ignore file, and no file a glob line of the ignore
\* file matches, is a blob of the tree in the artifact, and none of them was
\* stored in the Object Store by that snap.
\* ------------------------------------------------------------------------
IgnoreLines == IF ignoreFile = Absent THEN {} ELSE ignoreFile[2]

\* the files of the directory the ignore file names or matches
IgnoredFiles ==
  {p \in PresentPaths(Cwd) :
     \E line \in IgnoreLines :
        IF IncludesStar(line) THEN p \in globSync(line, Cwd)
        ELSE p[Len(p)] = line}

C4_IgnoredFilesLeftOut ==
  (outcome = "created" /\ IsArtifactFile(ArtifactName(callName))) =>
    \A p \in IgnoredFiles :
      /\ p \notin {b.path : b \in TreeBlobs(ArtifactOf(ArtifactName(callName)).tree.children, <<>>)}
      /\ p \notin wrote

\* the half of C4 that is about the tree, for literal lines and for glob
\* lines that match entries of the directory itself
C4_TreeHalfTopLevel ==
  (outcome = "created" /\ IsArtifactFile(ArtifactName(callName))) =>
    \A p \in IgnoredFiles :
      Len(p) = 1 =>
        p \notin {b.path : b \in TreeBlobs(ArtifactOf(ArtifactName(callName)).tree.children, <<>>)}

\* ------------------------------------------------------------------------
\* C5  Missing-object tolerance: when recreateTree has run on a loaded
\* artifact of which exactly one referenced blob has no object in the
\* Object Store, it did not throw, it reported exactly one diagnostic, for
\* the path of that blob, and every other referenced blob is below the
\* destination with the bytes of its object.
\* ------------------------------------------------------------------------
\* the blobs an artifact references, in its tree and in its files list
Referenced(artifact) ==
  TreeBlobs(artifact.tree.children, <<>>)
    \cup {[path |-> artifact.files[i].name, hash |-> artifact.files[i].hash]
            : i \in 1..Len(artifact.files)}

MissingRefs(artifact) == {b \in Referenced(artifact) : b.hash \notin DOMAIN objects}

RestoreDir == StripExt(BasenameGz(loadPath))

C5_MissingObjectTolerated ==
  ( /\ restoreOut.ran
    /\ loaded[1] = "artifact"
    /\ Cardinality(MissingRefs(loaded[2])) = 1 ) =>
    /\ ~restoreOut.threw
    /\ Len(restoreOut.diags) = 1
    /\ \A b \in MissingRefs(loaded[2]) : restoreOut.diags[1] = b.path
    /\ \A b \in Referenced(loaded[2]) \ MissingRefs(loaded[2]) :
         /\ b.path \in DOMAIN restored[RestoreDir]
         /\ restored[RestoreDir][b.path] = objects[b.hash]

\* C5 for the artifacts whose files list is empty, as it is in every
\* artifact snap writes: the walk of the tree alone restores them
C5_ToleratedWithEmptyFilesList ==
  ( /\ restoreOut.ran
    /\ loaded[1] = "artifact"
    /\ loaded[2].files = <<>>
    /\ Cardinality(MissingRefs(loaded[2])) = 1 ) =>
    /\ ~restoreOut.threw
    /\ Len(restoreOut.diags) = 1
    /\ \A b \in MissingRefs(loaded[2]) : restoreOut.diags[1] = b.path
    /\ \A b \in Referenced(loaded[2]) \ MissingRefs(loaded[2]) :
         /\ b.path \in DOMAIN restored[RestoreDir]
         /\ restored[RestoreDir][b.path] = objects[b.hash]

\* ------------------------------------------------------------------------
\* C6  The files list of every artifact snap has written holds exactly one
\* record {relative path, digest} for every blob of the tree of that
\* artifact.
\* ------------------------------------------------------------------------
C6_FilesListCoversTree ==
  \A f \in DOMAIN snapshotsDir \ {ForeignName} :
    IsArtifactFile(f) =>
      LET a == ArtifactOf(f)
          blobs == TreeBlobs(a.tree.children, <<>>)
      IN /\ {[path |-> a.files[i].name, hash |-> a.files[i].hash] : i \in 1..Len(a.files)} = blobs
         /\ Len(a.files) = Cardinality(blobs)

\* ------------------------------------------------------------------------
\* C7  Hash determinism: the tree snap computed (root digest, and at every
\* node the order of the children and the digest) is the tree computed
\* under every order in which the directories may be listed.
\* ------------------------------------------------------------------------
C7_HashDeterministic ==
  pc = "write_artifact" =>
    \A o1 \in ListingOrders, o2 \in ListingOrders :
      calculateTreeHash(Cwd, <<>>, getIgnoreList(Cwd), o1, o2) = treeObject

\* two entries of one directory of the tree walk have names that
\* localeCompare takes for equal
CollationTie ==
  \E p \in PresentPaths(Cwd), q \in PresentPaths(Cwd) :
    /\ p # q
    /\ Len(p) = Len(q)
    /\ SubSeq(p, 1, Len(p) - 1) = SubSeq(q, 1, Len(q) - 1)
    /\ NameRank(p[Len(p)]) = NameRank(q[Len(q)])
    /\ ~PathExcluded(p) /\ ~PathExcluded(q)

\* C7 for the trees without such a pair of names
C7_DeterministicWithoutTies ==
  (pc = "write_artifact" /\ ~CollationTie) =>
    \A o1 \in ListingOrders, o2 \in ListingOrders :
      calculateTreeHash(Cwd, <<>>, getIgnoreList(Cwd), o1, o2) = treeObject

\* ------------------------------------------------------------------------
\* C8  Name validation: a snap call with a name that its normalization
\* changes, in particular a name with a character that is no lowercase
\* letter, digit or hyphen, is rejected before anything is done: no
\* directory is created, no file is read, nothing is written.
\* ------------------------------------------------------------------------
C8_InvalidNameRejectedFirst ==
  [][\A n \in SnapshotNames :
       (SnapCalled(n) /\ (~IsSlug(n) \/ sanitize(n) # n)) =>
         /\ outcome' = "invalid"
         /\ pc' = "idle"
         /\ io' = <<>>
         /\ UNCHANGED << dirs, snapshotsDir, logFile, objects, restored, work, ignoreFile >>]_vars

\* names with a capital, with an underscore, and with two hyphens in a row
\* were rejected before the directories existed
C8_Witness ==
  /\ outcome = "invalid"
  /\ io = <<>>
  /\ dirs = {}
  /\ callName \in {<<"A">>, <<"a", "_", "b">>, <<"a", "-", "-", "b">>}

WellFormedArtifactAt(f) ==
  /\ EntryAt(f) \notin {Absent, DirEntry}
  /\ EndsWithGz(f)
  /\ IsGzip(EntryAt(f))
  /\ IsJsonText(gunzipSync(EntryAt(f)))
  /\ JsonParse(gunzipSync(EntryAt(f)))[1] = "artifact"

C10_LoaderTotal ==
  loadPath # NoName =>
    IF WellFormedArtifactAt(loadPath)
    THEN loaded # Null
    ELSE loaded = Null /\ loadDiag

\* the same, with the diagnostic left out
C10_NullUnlessWellFormed ==
  loadPath # NoName => (loaded # Null => WellFormedArtifactAt(loadPath))

\* the same, for the null results alone
C10_NullHasDiagnostic ==
  loadPath # NoName => (loaded = Null => loadDiag)

\* ------------------------------------------------------------------------
\* C11  Object Store idempotence: storing the files of a walk a second time
\* leaves the Object Store as storing them once does, and no step of any
\* snap changes the bytes of an object that is present: a snap step keeps
\* every object and its bytes, and whatever else happens, an object that
\* stays present keeps its bytes.
\* ------------------------------------------------------------------------
C11_ObjectsNeverChange ==
  [][ /\ \A d \in DOMAIN objects :
            d \in DOMAIN objects' => objects'[d] = objects[d]
      /\ pc # "idle" => DOMAIN objects \subseteq DOMAIN objects'
      /\ pc = "process_entry" =>
            \A o \in ListingOrders :
              LET walk == WalkFiles(Cwd, <<>>, o)
              IN StoreObjects(StoreObjects(objects, walk), walk)
                   = StoreObjects(objects, walk) ]_vars

\* a second snap, after an edit, stored files whose objects were present
C11_Witness ==
  /\ outcome = "created"
  /\ Cardinality(appended) = 2
  /\ events = 1
  /\ \E p \in wrote \cap WorkPaths : work[p] = InitialWork[p]
  /\ \E p \in wrote \cap WorkPaths : work[p] # InitialWork[p]

\* ------------------------------------------------------------------------
\* C12  Write ordering: in every state of a run without edits or faults in
\* which the log holds an entry for a name, the artifact of that name is
\* persisted and every blob of its tree has its object in the Object Store
\* (objects are stored before the artifact, the artifact before the log
\* entry).
\* ------------------------------------------------------------------------
C12_ObjectsThenArtifactThenLog ==
  events = 0 =>
    \A n \in LoggedNames :
      /\ IsArtifactFile(ArtifactName(n))
      /\ \A b \in TreeBlobs(ArtifactOf(ArtifactName(n)).tree.children, <<>>) :
           b.hash \in DOMAIN objects

\* the part of C12 the code keeps: the artifact is persisted before the log
\* entry is appended
C12_ArtifactThenLog ==
  events = 0 => \A n \in LoggedNames : IsArtifactFile(ArtifactName(n))

\* ------------------------------------------------------------------------
\* C13  The log is logically append-only: no step of snap changes or removes
\* a record, the records before a step are a prefix of the records after
\* it, and over a whole snap call the log grows by exactly the one record
\* {name, root digest} when the call succeeds and by nothing when it is
\* refused or fails.
\* ------------------------------------------------------------------------
\* the records of a log file; none for a file that does not exist
Records(logBytes) ==
  IF logBytes = Absent THEN <<>> ELSE LogEntries(logBytes)

Readable(logBytes) == logBytes = Absent \/ ParsesAsLog(logBytes)

\* the step belongs to a snap call
SnapStep ==
  \/ \E n \in SnapshotNames : SnapCalled(n)
  \/ pc # "idle"

\* the step ends a snap call
SnapEnds == SnapStep /\ pc' = "idle"

\* the log file as the call that ends in this step found it
LogAtCall == IF pc = "idle" THEN logFile ELSE logBefore

\* no record is changed or removed by a step of snap, and at most one is added
StepKeepsRecords ==
  SnapStep =>
    \/ logFile' = logFile
    \/ /\ Readable(logFile) /\ Readable(logFile')
       /\ Len(Records(logFile')) = Len(Records(logFile)) + 1
       /\ SubSeq(Records(logFile'), 1, Len(Records(logFile))) = Records(logFile)

\* a call that ends added its record if it succeeded and nothing if not
CallAddsOneIffCreated ==
  SnapEnds =>
    IF outcome' = "created"
    THEN /\ Readable(LogAtCall) /\ Readable(logFile')
         /\ Records(logFile') =
              Append(Records(LogAtCall), [treeName |-> callName', SHA |-> treeObject.hash])
    ELSE logFile' = LogAtCall

C13_LogAppendOnly == [][StepKeepsRecords /\ CallAddsOneIffCreated]_vars

\* the part of C13 the code keeps: records are never changed or removed, and
\* a call that succeeds has added exactly its record
C13_RecordsKept ==
  [][ /\ StepKeepsRecords
      /\ (SnapEnds /\ outcome' = "created") =>
            Records(logFile') =
              Append(Records(LogAtCall), [treeName |-> callName', SHA |-> treeObject.hash]) ]_vars

\* ------------------------------------------------------------------------
\* C14  Fatal log I/O: a snap call that has passed the duplicate checks and
\* then fails to read or write the log file during the append does not
\* complete normally: the failure reaches the caller of snap.
\* ------------------------------------------------------------------------
\* the step is an append to the log that failed
AppendFails == pc = "append_log" /\ pc' = "idle"

C14_LogFailurePropagates == [][AppendFails => outcome' = "threw"]_vars

\* what the code does instead: the failure is reported and snap returns
C14_LogFailureSwallowed == [][AppendFails => outcome' = "error"]_vars

\* ------------------------------------------------------------------------
\* C15  Store consistency: whenever no snap is in progress and nothing but
\* snap (succeeding, refused, or stopped at a failing step) has changed the
\* files of .subsys, every log entry {name, digest} has its artifact, whose
\* tree has that root digest and whose blobs all have an object in the
\* Object Store, and every artifact file has a log entry with its name.
\* ------------------------------------------------------------------------
\* the records of the log
LogRecords ==
  IF logFile = Absent THEN {}
  ELSE {LogEntries(logFile)[i] : i \in 1..Len(LogEntries(logFile))}

EntryHasArtifact(e) ==
  /\ IsArtifactFile(ArtifactName(e.treeName))
  /\ ArtifactOf(ArtifactName(e.treeName)).tree.hash = e.SHA

EntryHasObjects(e) ==
  IsArtifactFile(ArtifactName(e.treeName)) =>
    \A b \in TreeBlobs(ArtifactOf(ArtifactName(e.treeName)).tree.children, <<>>) :
      b.hash \in DOMAIN objects

ArtifactHasEntry(f) == \E e \in LogRecords : ArtifactName(e.treeName) = f

C15_StoreConsistent ==
  (pc = "idle" /\ ~tampered) =>
    /\ \A e \in LogRecords : EntryHasArtifact(e) /\ EntryHasObjects(e)
    /\ \A f \in DOMAIN snapshotsDir : ArtifactHasEntry(f)

\* the part of C15 the code keeps
C15_EntriesHaveArtifacts ==
  (pc = "idle" /\ ~tampered) => \A e \in LogRecords : EntryHasArtifact(e)

\* the two parts the code does not keep
C15_EntriesHaveObjects ==
  (pc = "idle" /\ ~tampered) => \A e \in LogRecords : EntryHasObjects(e)

C15_ArtifactsHaveEntries ==
  (pc = "idle" /\ ~tampered) => \A f \in DOMAIN snapshotsDir : ArtifactHasEntry(f)

====
